---- MODULE Spec2Model ----
(***************************************************************************)
(* procrec: record cpu and memory usage of one process.                    *)
(*                                                                         *)
(* The model follows src/src/main.rs: the construction of the              *)
(* TrackedProcess handle (TryFrom), the baseline cpu_percent() call, the   *)
(* installation of the Ctrl-C handler, the MAIN sampling loop, the POST    *)
(* phase and the Drop of the handle.  The operating system is the          *)
(* environment: the target process may exit at any moment, the interrupt   *)
(* handler may run at any moment once it is installed, and every call      *)
(* that returns a Result may return Err.                                   *)
(*                                                                         *)
(* Time is counted in whole seconds.  SystemTime is the wall clock: the    *)
(* value elapsed() returns is an input of each tick (it may be smaller     *)
(* than the one before, and it may be an Err when the clock was set back   *)
(* behind `start`).  f32 conversions keep their 24 bit significand.        *)
(***************************************************************************)
EXTENDS Integers, Sequences, FiniteSets

(***************************************************************************)
(* Bounds of the model and inputs                                          *)
(***************************************************************************)

\* Number of loop iterations (delays) explored.
MaxTicks == 3

\* Small elapsed times are 0..MaxElapsed seconds.
MaxElapsed == 2

\* Significand width of f32 (the type of Sample.ts and of `dur as f32`).
MantissaBits == 24

None == <<>>

Some(v) == <<v>>

\* The smallest integer from which f32 no longer holds every integer.
F32Exact == 2 ^ MantissaBits

\* Values of --duration: a short one, and one that f32 cannot hold.
DurationVals == {1, F32Exact + 3}

\* Values elapsed() may return, in seconds: short ones, and two beyond the
\* long duration.
ElapsedVals == (0 .. MaxElapsed) \cup {F32Exact + 4, F32Exact + 6}

\* The pid given with --pid, and the id a spawned child may get.
ExternalPids == {4711}

ChildPids == {4712}

\* What memory_info() may return (bytes).
MemReadings == {[rss |-> 999, vms |-> 2048], [rss |-> 4096000, vms |-> 8192999]}

VARIABLES
  opts,             \* Opts: [pid, command, duration, verbose]
  pc,               \* position of main
  exit,             \* how the program ended: none, ok, error, panic, abort
  target,           \* the target process: none, alive, zombie, reaped, gone
  spawned,          \* cmd.spawn() created a child
  handle,           \* variant of pid_proc: none, External, Internal
  handlePid,        \* pid_proc.pid()
  ctor,             \* result of TrackedProcess::try_from
  cpuCalls,         \* number of cpu_percent() calls made on the handle
  running,          \* the AtomicBool `running`
  handlerInstalled, \* ctrlc::set_handler succeeded
  flagWrites,       \* who stored into `running`: handler, loop
  startSet,         \* `start` is Some(_)
  recording,        \* the Vec<Sample>
  delays,           \* completed delay() calls
  printed,          \* Samples written to stdout
  plotted,          \* gnuplot_recording(&recording) was called
  acted,            \* process-affecting calls made: try_wait, kill, wait
  kills,            \* number of successful kill() calls
  reaps,            \* number of times the child was reaped
  warnings,         \* warnings written by Drop
  panicking,        \* main is unwinding from a panic
  fatal,            \* the call whose failure made main panic
  dropPanicked,     \* is_running() panicked inside Drop
  cancelAt,         \* main's position, Len(recording) and delays when the
                    \* handler first stored false
  notRunningAt      \* Len(recording) when is_running() returned false in the loop

vars == <<opts, pc, exit, target, spawned, handle, handlePid, ctor, cpuCalls,
          running, handlerInstalled, flagWrites, startSet, recording, delays,
          printed, plotted, acted, kills, reaps, warnings, panicking, fatal,
          dropPanicked, cancelAt, notRunningAt>>

\* Variables of the operating system side and of the handle.
procVars == <<target, spawned, handle, handlePid, ctor>>

\* Variables of the sampling loop.
loopVars == <<cpuCalls, startSet, recording, delays, printed>>

\* Variables written by Drop only.
dropVars == <<acted, kills, reaps, warnings, dropPanicked>>

\* Variables written by the interrupt handler or for it.
flagVars == <<running, handlerInstalled, flagWrites, cancelAt>>

(***************************************************************************)
(* f32                                                                     *)
(***************************************************************************)

RECURSIVE Ulp(_)
\* Distance between neighbouring f32 values around the natural number n.
Ulp(n) == IF n < F32Exact THEN 1 ELSE 2 * Ulp(n \div 2)

\* `n as f32` for a natural number n: round to nearest, ties to even.
AsF32(n) ==
  LET u  == Ulp(n)
      lo == (n \div u) * u
      r  == n - lo
  IN  IF 2 * r < u THEN lo
      ELSE IF 2 * r > u THEN lo + u
      ELSE IF (lo \div u) % 2 = 0 THEN lo ELSE lo + u

(***************************************************************************)
(* Initial state: the command line has been parsed                         *)
(***************************************************************************)

\* clap: --pid and the command exclude each other.
OptsVals ==
  { o \in [pid : {None} \cup {Some(p) : p \in ExternalPids}, command : BOOLEAN,
           duration : {None} \cup {Some(d) : d \in DurationVals},
           verbose : {0, 1}] :
      ~(o.pid # None /\ o.command) }

Init ==
  /\ opts \in OptsVals
  /\ pc = "start"
  /\ exit = "none"
  /\ target \in (IF opts.pid # None THEN {"alive", "gone"} ELSE {"none"})
  /\ spawned = FALSE
  /\ handle = "none"
  /\ handlePid = None
  /\ ctor = "none"
  /\ cpuCalls = 0
  /\ running = TRUE
  /\ handlerInstalled = FALSE
  /\ flagWrites = {}
  /\ startSet = FALSE
  /\ recording = <<>>
  /\ delays = 0
  /\ printed = 0
  /\ plotted = FALSE
  /\ acted = {}
  /\ kills = 0
  /\ reaps = 0
  /\ warnings = {}
  /\ panicking = FALSE
  /\ fatal = "none"
  /\ dropPanicked = FALSE
  /\ cancelAt = None
  /\ notRunningAt = None

(***************************************************************************)
(* TrackedProcess                                                          *)
(***************************************************************************)

\* Results of Process::new on a process in state t: a process that is not
\* there cannot be opened, one that is there may still be inaccessible.
ProcessNew(t) == IF t = "alive" THEN {"Ok", "Err"} ELSE {"Err"}

\* (mutant) try_from that spawns a process when the pid cannot be opened.
TryFromPidOrSpawn ==
  /\ opts.pid # None
  /\ \E r \in ProcessNew(target) :
       IF r = "Ok"
       THEN /\ ctor' = "External"
            /\ handle' = "External"
            /\ handlePid' = opts.pid
            /\ UNCHANGED <<target, spawned>>
       ELSE /\ ctor' = "Internal"
            /\ handle' = "Internal"
            /\ \E id \in ChildPids : handlePid' = Some(id)
            /\ spawned' = TRUE
            /\ target' = "alive"

\* try_from, opts.pid = Some(pid): attach, never spawn.
TryFromPid ==
  /\ opts.pid # None
  /\ \E r \in ProcessNew(target) :
       /\ ctor' = (IF r = "Ok" THEN "External" ELSE "ErrAccess")
       /\ handle' = (IF r = "Ok" THEN "External" ELSE "none")
       /\ handlePid' = (IF r = "Ok" THEN opts.pid ELSE None)
  /\ UNCHANGED <<target, spawned>>

\* try_from, opts.pid = None: spawn the command and attach to the child.
\* When Process::new fails the Child value is dropped, which neither kills
\* nor waits for the child.
TryFromCommand ==
  /\ opts.pid = None
  /\ \/ /\ ~opts.command
        /\ ctor' = "ErrConfig"
        /\ UNCHANGED <<target, spawned, handle, handlePid>>
     \/ /\ opts.command
        /\ ctor' = "ErrSpawn"
        /\ UNCHANGED <<target, spawned, handle, handlePid>>
     \/ /\ opts.command
        /\ spawned' = TRUE
        /\ target' = "alive"
        /\ \E id \in ChildPids, r \in ProcessNew("alive") :
             /\ ctor' = (IF r = "Ok" THEN "Internal" ELSE "ErrAccessSpawned")
             /\ handle' = (IF r = "Ok" THEN "Internal" ELSE "none")
             /\ handlePid' = (IF r = "Ok" THEN Some(id) ELSE None)

CtorErrors == {"ErrAccess", "ErrConfig", "ErrSpawn", "ErrAccessSpawned"}

\* (mutant) a try_wait that observes the exit without reaping the child.
AfterTryWaitNoReap(c) == c

\* Child::try_wait on a child in state c reaps it when it has exited.
AfterTryWait(c) == IF c = "zombie" THEN "reaped" ELSE c

\* is_running() of an Internal handle, try_wait having returned Ok:
\* Ok(None) is true, Ok(Some(_)) is false.
ChildRunning(c) == c = "alive"

\* is_running() of an External handle: psutil's liveness check.
ExternalRunning(t) == t = "alive"

\* (mutant) Drop without the `if let TrackedProcess::Internal`.
OwnsChildAnyVariant(h) == TRUE

\* Drop kills and joins only the child of an Internal handle.
OwnsChild(h) == h = "Internal"

\* (mutant) Drop that kills without asking is_running() first.
DropKillsUnchecked(c, h) == OwnsChild(h)

\* Drop: if self.is_running() { if let TrackedProcess::Internal(..) = self
DropMustKill(c, h) == ChildRunning(c) /\ OwnsChild(h)

\* Child::kill succeeded: the process is dead and not yet reaped.
AfterKill(c) == "zombie"

\* (mutant) Drop without the c.wait() after the kill.
AfterWaitNoReap(c) == c

\* Child::wait succeeded: the child is reaped.
AfterWait(c) == "reaped"

(***************************************************************************)
(* main                                                                    *)
(***************************************************************************)

\* A panic of main: the stack unwinds and pid_proc is dropped.
Panic(cause) ==
  /\ pc' = "drop"
  /\ panicking' = TRUE
  /\ fatal' = cause

\* opts.script_dump: print the gnuplot script and exit(0).
Start ==
  /\ pc = "start"
  /\ \E script_dump \in BOOLEAN :
       IF script_dump
       THEN pc' = "exited" /\ exit' = "ok"
       ELSE pc' = "construct" /\ exit' = exit
  /\ UNCHANGED <<opts, procVars, loopVars, plotted, dropVars, flagVars,
                 panicking, fatal, notRunningAt>>

\* let mut pid_proc = match TrackedProcess::try_from(&opts) { ... }
Construct ==
  /\ pc = "construct"
  /\ (TryFromPid \/ TryFromCommand)
  /\ IF ctor' \in CtorErrors
     THEN pc' = "exited" /\ exit' = "error"
     ELSE pc' = "baseline" /\ exit' = exit
  /\ UNCHANGED <<opts, loopVars, plotted, dropVars, flagVars, panicking,
                 fatal, notRunningAt>>

\* (mutant) main without the baseline call.
BaselineSkipped ==
  /\ pc = "baseline"
  /\ pc' = "handler"
  /\ UNCHANGED <<opts, exit, procVars, loopVars, plotted, dropVars, flagVars,
                 panicking, fatal, notRunningAt>>

\* let _percent_cpu = pid_proc.cpu_percent(): the result is not looked at.
Baseline ==
  /\ pc = "baseline"
  /\ cpuCalls' = cpuCalls + 1
  /\ pc' = "handler"
  /\ UNCHANGED <<opts, exit, procVars, startSet, recording, delays, printed,
                 plotted, dropVars, flagVars, panicking, fatal, notRunningAt>>

\* (mutant) a failed set_handler that is only logged: the loop starts
\* without cancellation support.
SetHandlerErrorIgnored ==
  /\ pc = "handler"
  /\ pc' = "while"
  /\ \/ /\ handlerInstalled' = TRUE
        /\ UNCHANGED fatal
     \/ /\ fatal' = "set_handler"
        /\ UNCHANGED handlerInstalled
  /\ UNCHANGED <<opts, exit, procVars, loopVars, plotted, dropVars, running,
                 flagWrites, cancelAt, notRunningAt, panicking>>

\* ctrlc::set_handler(...).expect(...)
SetHandler ==
  /\ pc = "handler"
  /\ \/ /\ handlerInstalled' = TRUE
        /\ pc' = "while"
        /\ UNCHANGED <<panicking, fatal>>
     \/ /\ Panic("set_handler")
        /\ UNCHANGED handlerInstalled
  /\ UNCHANGED <<opts, exit, procVars, loopVars, plotted, dropVars, running,
                 flagWrites, cancelAt, notRunningAt>>

\* (mutant) a loop that never looks at the flag.
LoopConditionIgnoresFlag == TRUE

\* The loop condition: running.load(Ordering::SeqCst).
LoopCondition == running

\* (mutant) a do-while loop: the first iteration runs before the flag is
\* looked at.
WhileBodyFirst ==
  /\ pc = "while"
  /\ (delays = 0 \/ LoopCondition) => delays < MaxTicks
  /\ pc' = (IF delays = 0 \/ LoopCondition THEN "delay" ELSE "post")
  /\ UNCHANGED <<opts, exit, procVars, loopVars, plotted, dropVars, flagVars,
                 panicking, fatal, notRunningAt>>

\* while running.load(Ordering::SeqCst): evaluated once per iteration,
\* before the delay.  At most MaxTicks iterations are explored; an iteration
\* that was entered always runs to its end.
While ==
  /\ pc = "while"
  /\ LoopCondition => delays < MaxTicks
  /\ pc' = (IF LoopCondition THEN "delay" ELSE "post")
  /\ UNCHANGED <<opts, exit, procVars, loopVars, plotted, dropVars, flagVars,
                 panicking, fatal, notRunningAt>>

\* delay(sample_rate)
Delay ==
  /\ pc = "delay"
  /\ delays' = delays + 1
  /\ pc' = "tick"
  /\ UNCHANGED <<opts, exit, procVars, cpuCalls, startSet, recording, printed,
                 plotted, dropVars, flagVars, panicking, fatal, notRunningAt>>

\* (mutant) the not-running branch without the store.
StopLoopForgotten == UNCHANGED <<running, flagWrites>>

\* (mutant) the not-running branch storing the wrong value.
StopLoopStoresTrue ==
  /\ running' = TRUE
  /\ flagWrites' = flagWrites \cup {"loop"}

\* running.store(false, Ordering::SeqCst) in the not-running branch.
StopLoop ==
  /\ running' = FALSE
  /\ flagWrites' = flagWrites \cup {"loop"}

\* if ! pid_proc.is_running() { running.store(false, ..) } else { ... }
Tick ==
  /\ pc = "tick"
  /\ \/ /\ handle = "Internal"
        /\ acted' = acted \cup {"try_wait"}
        /\ \/ /\ Panic("try_wait")
              /\ UNCHANGED <<target, reaps, running, flagWrites, notRunningAt>>
           \/ /\ target' = AfterTryWait(target)
              /\ reaps' = (IF target' # target THEN reaps + 1 ELSE reaps)
              /\ IF ChildRunning(target)
                 THEN /\ pc' = "measure"
                      /\ UNCHANGED <<running, flagWrites, notRunningAt>>
                 ELSE /\ pc' = "while"
                      /\ StopLoop
                      /\ notRunningAt' = Some(Len(recording))
              /\ UNCHANGED <<panicking, fatal>>
     \/ /\ handle = "External"
        /\ IF ExternalRunning(target)
           THEN /\ pc' = "measure"
                /\ UNCHANGED <<running, flagWrites, notRunningAt>>
           ELSE /\ pc' = "while"
                /\ StopLoop
                /\ notRunningAt' = Some(Len(recording))
        /\ UNCHANGED <<target, acted, reaps, panicking, fatal>>
  /\ UNCHANGED <<opts, exit, spawned, handle, handlePid, ctor, loopVars,
                 plotted, kills, warnings, dropPanicked, handlerInstalled,
                 cancelAt>>

\* Whether the loop breaks after pushing a Sample with timestamp ts:
\* if let Some(dur) = opts.duration { if time_since_start > dur as f32 .. }
DurationExceeded(ts) ==
  /\ opts.duration # None
  /\ ts > AsF32(opts.duration[1])

\* The Sample built from the cpu_percent() call number `call`, the memory
\* reading mem and the elapsed seconds e.
MakeSample(call, mem, e) ==
  [ts    |-> AsF32(e),
   pid   |-> handlePid[1],
   cpu   |-> call,
   rss   |-> mem.rss \div 1000,
   vsize |-> mem.vms \div 1000]

\* (mutant) a push that replaces the recording by the new Sample.
PushOverwrites(data) ==
  /\ recording' = <<data>>
  /\ printed' = (IF opts.verbose > 0 THEN printed + 1 ELSE printed)
  /\ pc' = (IF DurationExceeded(data.ts) THEN "post" ELSE "while")

\* recording.push(data), after the println! of a verbose run, and the
\* duration check that follows.
Push(data) ==
  /\ recording' = Append(recording, data)
  /\ printed' = (IF opts.verbose > 0 THEN printed + 1 ELSE printed)
  /\ pc' = (IF DurationExceeded(data.ts) THEN "post" ELSE "while")

\* The else branch of the loop body: measure, build the Sample, push it.
\* cpu_percent() and memory_info() fail only on a process that has exited;
\* elapsed() fails when the wall clock is behind `start`.
Measure ==
  /\ pc = "measure"
  /\ cpuCalls' = cpuCalls + 1
  /\ \/ /\ target # "alive"
        /\ \E cause \in {"cpu_percent", "memory_info"} : Panic(cause)
        /\ UNCHANGED <<startSet, recording, printed>>
     \/ /\ startSet
        /\ Panic("elapsed")
        /\ UNCHANGED <<startSet, recording, printed>>
     \/ /\ \E mem \in MemReadings :
             \/ /\ ~startSet
                /\ startSet' = TRUE
                /\ Push(MakeSample(cpuCalls + 1, mem, 0))
             \/ /\ startSet
                /\ UNCHANGED startSet
                /\ \E e \in ElapsedVals : Push(MakeSample(cpuCalls + 1, mem, e))
        /\ UNCHANGED <<panicking, fatal>>
  /\ UNCHANGED <<opts, exit, procVars, delays, plotted, dropVars, flagVars,
                 notRunningAt>>

\* POST phase: print the recording unless it was printed sample by sample,
\* and plot it with --graph (opts.graph is read here only).
Post ==
  /\ pc = "post"
  /\ printed' = (IF opts.verbose = 0 THEN Len(recording) ELSE printed)
  /\ \E graph \in BOOLEAN : plotted' = graph
  /\ pc' = "drop"
  /\ UNCHANGED <<opts, exit, procVars, cpuCalls, startSet, recording, delays,
                 dropVars, flagVars, panicking, fatal, notRunningAt>>

\* How main ends once pid_proc is dropped.
ExitAfterDrop == IF panicking THEN "panic" ELSE "ok"

\* How main ends when Drop itself panics: a second panic aborts.
ExitOnDropPanic == IF panicking THEN "abort" ELSE "panic"

\* impl Drop for TrackedProcess, run when main returns or unwinds.
Drop ==
  /\ pc = "drop"
  /\ pc' = "exited"
  /\ \/ /\ handle = "Internal"
        /\ \/ /\ acted' = acted \cup {"try_wait"}
              /\ dropPanicked' = TRUE
              /\ exit' = ExitOnDropPanic
              /\ UNCHANGED <<target, kills, reaps, warnings>>
           \/ /\ ~DropMustKill(target, handle)
              /\ acted' = acted \cup {"try_wait"}
              /\ target' = AfterTryWait(target)
              /\ reaps' = (IF target' # target THEN reaps + 1 ELSE reaps)
              /\ exit' = ExitAfterDrop
              /\ UNCHANGED <<kills, warnings, dropPanicked>>
           \/ /\ DropMustKill(target, handle)
              /\ exit' = ExitAfterDrop
              /\ UNCHANGED dropPanicked
              /\ \/ /\ acted' = acted \cup {"try_wait", "kill"}
                    /\ warnings' = warnings \cup {"kill"}
                    /\ UNCHANGED <<target, kills, reaps>>
                 \/ /\ acted' = acted \cup {"try_wait", "kill", "wait"}
                    /\ kills' = kills + 1
                    /\ \/ /\ warnings' = warnings \cup {"join"}
                          /\ target' = AfterKill(target)
                          /\ UNCHANGED reaps
                       \/ /\ target' = AfterWait(AfterKill(target))
                          /\ reaps' = reaps + 1
                          /\ UNCHANGED warnings
     \/ /\ handle = "External"
        /\ exit' = ExitAfterDrop
        /\ IF ExternalRunning(target) /\ OwnsChild(handle)
           THEN /\ acted' = acted \cup {"kill", "wait"}
                /\ kills' = kills + 1
                /\ target' = AfterWait(AfterKill(target))
           ELSE UNCHANGED <<target, acted, kills>>
        /\ UNCHANGED <<reaps, warnings, dropPanicked>>
  /\ UNCHANGED <<opts, spawned, handle, handlePid, ctor, loopVars, plotted,
                 flagVars, panicking, fatal, notRunningAt>>

(***************************************************************************)
(* Environment                                                             *)
(***************************************************************************)

\* The target process exits by itself: a spawned child stays a zombie until
\* it is reaped, a foreign process is gone.
TargetExit ==
  /\ pc # "exited"
  /\ target = "alive"
  /\ target' = (IF spawned THEN "zombie" ELSE "gone")
  /\ UNCHANGED <<opts, pc, exit, spawned, handle, handlePid, ctor, loopVars,
                 plotted, dropVars, flagVars, panicking, fatal, notRunningAt>>

\* (mutant) a handler that also kills and reaps the spawned child.
InterruptKillsChild ==
  /\ pc # "exited"
  /\ handlerInstalled
  /\ running' = FALSE
  /\ flagWrites' = flagWrites \cup {"handler"}
  /\ cancelAt' = (IF cancelAt = None
                  THEN Some([at |-> pc, len |-> Len(recording),
                             delays |-> delays])
                  ELSE cancelAt)
  /\ IF handle = "Internal" /\ target = "alive"
     THEN /\ target' = "reaped"
          /\ kills' = kills + 1
          /\ reaps' = reaps + 1
          /\ acted' = acted \cup {"kill", "wait"}
     ELSE UNCHANGED <<target, kills, reaps, acted>>
  /\ UNCHANGED <<opts, pc, exit, spawned, handle, handlePid, ctor, loopVars,
                 plotted, warnings, dropPanicked, handlerInstalled, panicking,
                 fatal, notRunningAt>>

\* Ctrl-C: the handler runs r.store(false, Ordering::SeqCst).
Interrupt ==
  /\ pc # "exited"
  /\ handlerInstalled
  /\ running' = FALSE
  /\ flagWrites' = flagWrites \cup {"handler"}
  /\ cancelAt' = (IF cancelAt = None
                  THEN Some([at |-> pc, len |-> Len(recording),
                             delays |-> delays])
                  ELSE cancelAt)
  /\ UNCHANGED <<opts, pc, exit, procVars, loopVars, plotted, dropVars,
                 handlerInstalled, panicking, fatal, notRunningAt>>

Next ==
  \/ Start
  \/ Construct
  \/ Baseline
  \/ SetHandler
  \/ While
  \/ Delay
  \/ Tick
  \/ Measure
  \/ Post
  \/ Drop
  \/ TargetExit
  \/ Interrupt

Spec == Init /\ [][Next]_vars

\* The steps of the main thread. The handler and the target's exit are the
\* environment's.
MainStep ==
  \/ Start
  \/ Construct
  \/ Baseline
  \/ SetHandler
  \/ While
  \/ Delay
  \/ Tick
  \/ Measure
  \/ Post
  \/ Drop

\* main is a thread the scheduler keeps running: thread::sleep returns, the
\* stats calls, try_wait, kill return, and wait returns once the child got
\* SIGKILL, so main takes its next step whenever it has one. Nothing is
\* assumed about when, or whether, an interrupt arrives or the target exits.
FairSpec == Spec /\ WF_vars(MainStep)

(***************************************************************************)
(* Properties                                                              *)
(***************************************************************************)

\* Positions of main inside the loop body, after the loop condition.
InBody == {"delay", "tick", "measure"}

\* The loop has been left (or was never entered and main is past it).
LoopLeft == pc \in {"post", "drop", "exited"} /\ handlerInstalled

\* C1 (as stated): when the handler sets the flag between two ticks, the
\* delay of the next iteration included, no further Sample is appended.
C1_NoSampleAfterCancel ==
  (cancelAt # None /\ cancelAt[1].at \in {"while", "delay"})
    => Len(recording) = cancelAt[1].len

\* C1 (amended): a flag set before the loop condition is evaluated stops the
\* loop without a further Sample; a flag set after it, during the delay or
\* later in the iteration, lets that one iteration finish, so at most one
\* further Sample is appended.
C1_AtMostOneSampleAfterCancel ==
  cancelAt # None =>
    /\ cancelAt[1].at \in InBody => Len(recording) <= cancelAt[1].len + 1
    /\ cancelAt[1].at \notin InBody => Len(recording) = cancelAt[1].len

\* C1 witness: the flag was set during a delay after one Sample, and the
\* run ended with exactly one Sample more.
C1_Witness ==
  /\ pc = "exited"
  /\ cancelAt # None
  /\ cancelAt[1].at = "delay"
  /\ cancelAt[1].len = 1
  /\ Len(recording) = 2

\* C2 (as stated): after teardown of an Internal handle the child is reaped,
\* here even granting that Drop did not panic.
C2_ChildAlwaysReaped ==
  (pc = "exited" /\ handle = "Internal" /\ ~dropPanicked) => target = "reaped"

\* C2 (amended): after teardown of an Internal handle the child is reaped,
\* whatever stopped the loop, unless a call of the teardown failed: then a
\* warning was written (kill or wait failed) or Drop panicked (try_wait
\* failed).
C2_ReapedUnlessTeardownFailed ==
  (pc = "exited" /\ handle = "Internal")
    => (target = "reaped" \/ warnings # {} \/ dropPanicked)

\* C2 witness: a cancelled run whose child was still alive at teardown and
\* was killed and reaped by Drop.
C2_Witness ==
  /\ pc = "exited"
  /\ handle = "Internal"
  /\ "handler" \in flagWrites
  /\ kills = 1
  /\ target = "reaped"
  /\ warnings = {}

\* C3 (as stated): when the spawn succeeds and opening the stats handle
\* fails, the program ends with the spawned child killed and reaped.
C3_OrphanKilled ==
  (pc = "exited" /\ ctor = "ErrAccessSpawned") => target = "reaped"

\* C4, the state part: once is_running() has returned false in the loop the
\* flag is cleared, main does not enter the loop body again, and the
\* recording keeps the length it had at that tick.
C4_StoppedOnceNotRunning ==
  notRunningAt # None =>
    /\ ~running
    /\ pc \notin InBody
    /\ Len(recording) = notRunningAt[1]

\* C4, the step part: a tick that finds the target exited takes no
\* measurement and appends nothing, and a Sample is appended only by the
\* measurement of a tick whose is_running() returned true.
C4_ExitSeenAtTick ==
  /\ (pc = "tick" /\ target # "alive" /\ pc' # pc)
       => (pc' # "measure" /\ recording' = recording)
  /\ recording' # recording => (pc = "measure" /\ notRunningAt = None)

\* C4: the exit of the target is seen at the next tick by is_running()
\* returning false; that tick appends no Sample and stops the loop, and no
\* Sample is appended after the last tick on which is_running() was true.
C4_NoSampleOnceNotRunning ==
  [][C4_ExitSeenAtTick]_vars /\ []C4_StoppedOnceNotRunning

\* C4 witness: the target exited after two Samples and the run ended.
C4_Witness ==
  /\ pc = "exited"
  /\ exit = "ok"
  /\ notRunningAt = Some(2)
  /\ Len(recording) = 2

\* C5 (as stated): when the target is alive throughout and the loop is left
\* without a panic, there is one Sample per completed delay, the first
\* timestamp is 0 and the timestamps do not decrease.
C5_OneSamplePerDelayMonotone ==
  (LoopLeft /\ target = "alive" /\ fatal = "none") =>
    /\ Len(recording) = delays
    /\ (recording # <<>> => recording[1].ts = 0)
    /\ \A i \in 1 .. Len(recording) - 1 : recording[i].ts <= recording[i + 1].ts

\* C6 (as stated): with a duration limit D, a Sample whose timestamp exceeds
\* D is the last one, and the loop has stopped once it is appended.
C6_FirstBeyondDurationIsLast ==
  opts.duration # None =>
    \A i \in 1 .. Len(recording) :
      recording[i].ts > opts.duration[1]
        => (i = Len(recording) /\ pc \notin {"while"} \cup InBody)

\* C7 (as stated): when cpu_percent() or memory_info() fails in the loop,
\* every Sample recorded so far has been given to the reporting.
C7_PartialRecordingReported ==
  (pc = "exited" /\ fatal \in {"cpu_percent", "memory_info"})
    => (printed = Len(recording) \/ plotted)

\* C8: with an External handle no process-affecting call is ever made: no
\* try_wait, kill or wait, nothing is spawned, and the target is only ever
\* changed by itself.
C8_ExternalNeverActedOn ==
  handle = "External" =>
    /\ acted = {}
    /\ kills = 0
    /\ reaps = 0
    /\ ~spawned
    /\ target \in {"alive", "gone"}

\* C8 witness: an External run that sampled, ended normally and left its
\* target alive.
C8_Witness ==
  /\ pc = "exited"
  /\ exit = "ok"
  /\ handle = "External"
  /\ target = "alive"
  /\ Len(recording) >= 1

\* C9, the state part: a --pid run whose try_from gave no External handle
\* ended there with the access error, spawned nothing, never delayed, never
\* queried the stats and recorded nothing.
C9_FailedAttachDoesNothing ==
  (opts.pid # None /\ ctor # "none" /\ handle # "External")
    => /\ ctor = "ErrAccess"
       /\ pc = "exited"
       /\ exit = "error"
       /\ ~spawned
       /\ recording = <<>>
       /\ delays = 0
       /\ cpuCalls = 0

\* C9, the step part: try_from on a pid whose process is not there fails
\* with the access error.
C9_MissingPidFails ==
  (pc = "construct" /\ opts.pid # None /\ target # "alive" /\ pc' # pc)
    => (ctor' = "ErrAccess" /\ handle' = "none")

\* C9: constructing a handle from a nonexistent or inaccessible pid always
\* fails with an access error, never spawns, and the run ends with an empty
\* recording and no loop iteration.
C9_NonexistentPid == [][C9_MissingPidFails]_vars /\ []C9_FailedAttachDoesNothing

\* C9 witness: the run for a pid that does not exist has ended with the
\* access error.
C9_Witness ==
  /\ pc = "exited"
  /\ opts.pid # None
  /\ target = "gone"
  /\ ctor = "ErrAccess"
  /\ exit = "error"

\* C10 (as stated): teardown never raises a panic and never aborts.
C10_TeardownNeverPanics == ~dropPanicked /\ exit # "abort"

\* C11 (as stated): the interrupt handler is the only writer of the flag;
\* the loop never stores into it.
C11_HandlerOnlyWriter == flagWrites \subseteq {"handler"}

\* C11, the state part: the flag is `running` exactly as long as nobody has
\* stored into it; the writers are the handler and the not-running branch
\* of the loop, and the loop has stored only after is_running() returned
\* false.
C11_FlagAndWriters ==
  /\ running <=> flagWrites = {}
  /\ flagWrites \subseteq {"handler", "loop"}
  /\ "loop" \in flagWrites <=> notRunningAt # None

\* C11, the step part: once cancelled the flag is never reset, and a step
\* that clears it is the handler (main does not move) or the tick on which
\* is_running() returned false.
C11_FlagStep ==
  /\ ~running => ~running'
  /\ (running /\ ~running')
       => \/ pc' = pc /\ "handler" \in flagWrites'
          \/ pc = "tick" /\ pc' = "while" /\ notRunningAt' # None

\* C11 (amended): the flag starts as running and is only ever moved to
\* cancelled, never back; it has two writers, the interrupt handler and the
\* loop itself on the tick that finds the target exited; every other action
\* only reads it.
C11_TwoWritersNeverReset == [][C11_FlagStep]_vars /\ []C11_FlagAndWriters

\* C11 witness: a run nobody interrupted, whose loop cleared the flag itself
\* when the target had exited.
C11_Witness ==
  /\ pc = "exited"
  /\ flagWrites = {"loop"}
  /\ ~running
  /\ Len(recording) >= 1

\* C12, the safety part: once the handler has set the flag at most one further delay
\* completes, and only the delay that was already under way when the flag
\* was set: a flag set anywhere else is followed by no delay at all.
C12_AtMostOneDelayAfterCancel ==
  cancelAt # None =>
    /\ delays <= cancelAt[1].delays + 1
    /\ cancelAt[1].at # "delay" => delays = cancelAt[1].delays
    /\ delays > cancelAt[1].delays => pc # "delay"

\* C12, the liveness part: a flag set by the handler is followed by the
\* loop being left.
C12_CancelLeadsToStopped ==
  (cancelAt # None) ~> (pc \in {"post", "drop", "exited"})

\* C12: bounded response to cancellation. After the handler has set the
\* flag the loop is left, after at most the one delay that was under way,
\* and no second delay is started.
C12_BoundedResponse ==
  []C12_AtMostOneDelayAfterCancel /\ C12_CancelLeadsToStopped

\* C12 witness: the flag was set during the second delay; that delay
\* completed, and the run ended without a third.
C12_Witness ==
  /\ pc = "exited"
  /\ cancelAt # None
  /\ cancelAt[1].at = "delay"
  /\ cancelAt[1].delays = 1
  /\ delays = 2

\* The number of cpu_percent() calls a run has made once the handle exists:
\* the baseline call, one per Sample, and the call of a tick that panicked
\* after it.
ExpectedCpuCalls ==
  1 + Len(recording)
    + (IF fatal \in {"cpu_percent", "memory_info", "elapsed"} THEN 1 ELSE 0)

\* C13: one baseline cpu_percent() call is made before the first tick and
\* its result is in no Sample; each Sample holds the result of one later
\* call of its own, the k-th Sample that of call k+1.
C13_BaselineThenOneCallPerSample ==
  /\ pc \in {"start", "construct", "baseline"} => cpuCalls = 0
  /\ (handle # "none" /\ pc # "baseline" /\ pc # "measure")
       => cpuCalls = ExpectedCpuCalls
  /\ pc = "measure" => cpuCalls = 1 + Len(recording)
  /\ \A k \in 1 .. Len(recording) : recording[k].cpu = k + 1

\* C13 witness: two Samples, holding the results of the second and third
\* call.
C13_Witness ==
  /\ pc = "exited"
  /\ Len(recording) = 2
  /\ recording[1].cpu = 2
  /\ recording[2].cpu = 3
  /\ cpuCalls = 3

\* C14, the state part: after the loop's is_running() returned false there
\* is no further cpu_percent() call (the count stays at the baseline plus
\* one per Sample taken before), hence no memory_info() either, and no kill
\* and no wait; try_wait is the only call ever made on the child.
C14_NothingAfterNotRunning ==
  notRunningAt # None =>
    /\ cpuCalls = notRunningAt[1] + 1
    /\ Len(recording) = notRunningAt[1]
    /\ kills = 0
    /\ acted \subseteq {"try_wait"}
    /\ fatal \notin {"cpu_percent", "memory_info", "elapsed"}

\* C14, the step part: a teardown whose own is_running() returns false (the
\* child has exited, reaped or not) sends no kill and makes no wait.
C14_DropOfExitedChild ==
  (pc = "drop" /\ handle = "Internal" /\ target # "alive")
    => /\ kills' = kills
       /\ acted' \subseteq acted \cup {"try_wait"}

\* C14: once is_running() has returned false the process is never acted on
\* again: no stats query, no kill, no wait, in the loop or at teardown.
C14_NeverActsOnStale ==
  []C14_NothingAfterNotRunning /\ [][C14_DropOfExitedChild]_vars

\* C14 witness: the non-blocking join of a tick reaped the exited child and
\* the teardown that followed sent no kill.
C14_Witness ==
  /\ pc = "exited"
  /\ handle = "Internal"
  /\ notRunningAt # None
  /\ Len(recording) >= 1
  /\ target = "reaped"
  /\ reaps = 1
  /\ kills = 0

\* C15 (as stated): every exit path of a run that built an Internal handle
\* ends with the owned child reaped, exactly once (checked on the runs whose
\* teardown did not panic).
C15_AlwaysReapedOnce ==
  (pc = "exited" /\ handle = "Internal" /\ ~dropPanicked) => reaps = 1

\* C15 (amended): with an Internal handle the child is reaped at most once
\* and killed at most once, a kill only by teardown; it is reaped exactly
\* when the non-blocking join saw its exit or teardown's kill and wait both
\* succeeded. On every exit path (normal stop, cancellation, duration
\* expiry, a panic of the loop, a failed handler installation) the child
\* ends reaped unless teardown's kill or wait failed, which is only warned
\* about, or teardown's own is_running() panicked.
C15_ReapedOnceUnlessTeardownFailed ==
  handle = "Internal" =>
    /\ reaps <= 1
    /\ kills <= 1
    /\ kills = 1 => pc = "exited"
    /\ reaps = 1 <=> target = "reaped"
    /\ pc = "exited" => (reaps = 1 \/ warnings # {} \/ dropPanicked)
    /\ (pc = "exited" /\ warnings = {"kill"}) => (kills = 0 /\ target = "alive")
    /\ (pc = "exited" /\ warnings = {"join"}) => (kills = 1 /\ target = "zombie")

\* C15 witness: the handler could not be installed, main panicked, and the
\* unwinding teardown killed the still-running child once and reaped it.
C15_Witness ==
  /\ pc = "exited"
  /\ handle = "Internal"
  /\ fatal = "set_handler"
  /\ kills = 1
  /\ reaps = 1
  /\ target = "reaped"

\* (the handler installation failed)
HandlerFailed == fatal = "set_handler"

\* C16: when set_handler fails main panics on the spot: the loop is never
\* entered, so no delay is incurred, no Sample is taken (no cpu_percent()
\* call beyond the baseline, no is_running() of the loop), the Recording
\* stays empty and nothing is printed or plotted; only teardown remains.
C16_HandlerFailureIsFatal ==
  HandlerFailed =>
    /\ ~handlerInstalled
    /\ panicking
    /\ pc \in {"drop", "exited"}
    /\ delays = 0
    /\ recording = <<>>
    /\ ~startSet
    /\ cpuCalls = 1
    /\ printed = 0
    /\ ~plotted
    /\ notRunningAt = None
    /\ running
    /\ pc = "exited" => exit \in {"panic", "abort"}

\* C16, from the other side: the loop is entered only with the handler
\* installed.
C16_LoopOnlyWithHandler ==
  (pc \in {"while", "delay", "tick", "measure", "post"} \/ delays > 0)
    => handlerInstalled

\* C16: a failed handler installation is fatal at startup and sampling does
\* not proceed.
C16_NoSamplingWithoutHandler ==
  C16_HandlerFailureIsFatal /\ C16_LoopOnlyWithHandler

\* C16 witness: the installation failed with a spawned child running; main
\* ended by the panic, the Recording empty.
C16_Witness ==
  /\ pc = "exited"
  /\ HandlerFailed
  /\ exit = "panic"
  /\ handle = "Internal"
  /\ recording = <<>>
  /\ delays = 0

\* The loop has been left (Stopped), whichever way.
Stopped == pc \in {"post", "drop", "exited"}

\* The last Sample's timestamp is beyond the configured duration, as the
\* code compares them.
DurationHit ==
  /\ recording # <<>>
  /\ DurationExceeded(recording[Len(recording)].ts)

\* C17, the liveness part: a flag set by the handler, a target found exited
\* by a tick, and a Sample beyond the duration each lead to Stopped.
C17_StopConditionsLeadToStopped ==
  /\ (~running) ~> Stopped
  /\ (pc = "tick" /\ target # "alive") ~> Stopped
  /\ DurationHit ~> Stopped

\* C17, the exclusive part (as stated): the loop is left only with the flag
\* set (by the handler, or by the tick that found the target exited), with
\* the duration exceeded, or by a fatal cpu_percent()/memory_info() error.
C17_LeftOnlyByStopConditionOrStatsError ==
  LoopLeft =>
    \/ ~running
    \/ DurationHit
    \/ fatal \in {"cpu_percent", "memory_info"}

\* C17: liveness of the Sampling Loop, and the loop is left only through
\* the three stop conditions or a fatal stats error.
C17_LoopLiveness ==
  C17_StopConditionsLeadToStopped /\ []C17_LeftOnlyByStopConditionOrStatsError

\* C17 with the two further panics of the loop body counted among the
\* causes: the loop is left only by a stop condition or by a panic of
\* is_running(), cpu_percent(), memory_info() or elapsed().
C17_LeftOnlyByStopConditionOrPanic ==
  LoopLeft =>
    \/ ~running
    \/ DurationHit
    \/ fatal \in {"cpu_percent", "memory_info", "try_wait", "elapsed"}

\* A step of the interrupt handler that does anything.
HandlerStep == cancelAt' # cancelAt \/ (running /\ ~running' /\ pc' = pc)

\* The tick on which the non-blocking join finds the child exited: the
\* loop's last, it clears the flag and goes back to the loop condition.
ExitSeenByTick ==
  /\ pc = "tick"
  /\ pc' = "while"
  /\ ~running'
  /\ notRunningAt' # None

\* C18 (as stated), the reaping: the child is reaped only by teardown, never
\* while the loop is still Sampling.
C18_ReapedOnlyAtTeardown == [][reaps' # reaps => pc = "drop"]_vars

\* C18 (amended), one step: the handler changes the flag and nothing else;
\* kill and the blocking wait are made by teardown only; the child is reaped
\* by teardown or by the non-blocking join of the tick that ends the loop.
C18_Step ==
  /\ HandlerStep
       => /\ ~running'
          /\ UNCHANGED <<opts, pc, exit, procVars, loopVars, plotted, dropVars,
                         handlerInstalled, panicking, fatal, notRunningAt>>
  /\ (kills' # kills \/ (acted' \ acted) \cap {"kill", "wait"} # {})
       => (pc = "drop" /\ pc' = "exited")
  /\ (reaps' # reaps \/ (target' = "reaped" /\ target # "reaped"))
       => (pc = "drop" \/ ExitSeenByTick)

\* C18 (amended): the handler only sets the flag; the child is killed and
\* waited for on main's path after the loop, in teardown, and reaped there
\* or by the loop's own non-blocking join on its last tick, never by the
\* handler.
C18_HandlerOnlySetsFlag == [][C18_Step]_vars

\* C18 witness: the handler set the flag during a delay with the child
\* running; the child was killed and reaped afterwards, by teardown.
C18_Witness ==
  /\ pc = "exited"
  /\ handle = "Internal"
  /\ cancelAt # None
  /\ cancelAt[1].at = "delay"
  /\ flagWrites = {"handler"}
  /\ acted = {"try_wait", "kill", "wait"}
  /\ kills = 1
  /\ reaps = 1

\* is_running() as the tick of the current state would return it.
IsRunningNow ==
  IF handle = "Internal" THEN ChildRunning(target) ELSE ExternalRunning(target)

\* C19, one step: the Recording is unchanged or extended by exactly one
\* Sample at its end, by the else branch of the loop body, the Sample
\* carrying the handle's identifier; that branch is entered only from a
\* tick whose is_running() returned true; the identifier, once set, never
\* changes.
C19_Step ==
  /\ \/ recording' = recording
     \/ /\ pc = "measure"
        /\ Len(recording') = Len(recording) + 1
        /\ SubSeq(recording', 1, Len(recording)) = recording
        /\ recording'[Len(recording')].pid = handlePid[1]
  /\ (pc' = "measure" /\ pc # "measure")
       => (pc = "tick" /\ IsRunningNow /\ notRunningAt' = None)
  /\ handlePid # None => handlePid' = handlePid

\* C19, the state part: every Sample carries the handle's identifier, there
\* is at most one Sample per iteration (per completed delay), and an
\* iteration that is about to append has not appended yet.
C19_OnePerIterationSamePid ==
  /\ \A i \in 1 .. Len(recording) : recording[i].pid = handlePid[1]
  /\ Len(recording) <= delays
  /\ pc \in {"tick", "measure"} => Len(recording) < delays
  /\ notRunningAt # None => Len(recording) = notRunningAt[1]

\* C19: the Recording is append-only and grows by at most one Sample per
\* loop iteration; Samples once appended are never modified or removed;
\* every Sample carries the single immutable ProcessIdentifier; a Sample is
\* appended only in an iteration whose is_running() returned true.
C19_AppendOnly == [][C19_Step]_vars /\ []C19_OnePerIterationSamePid

\* C19 witness: three iterations appended three Samples, one each.
C19_Witness ==
  /\ pc = "exited"
  /\ Len(recording) = 3
  /\ delays = 3
  /\ \A i \in 1 .. 3 : recording[i].pid = handlePid[1]

\* The interrupt arrived with the handler installed and before the loop
\* evaluated its condition for the first time.
CancelledBeforeLoop ==
  /\ cancelAt # None
  /\ cancelAt[1].at = "while"
  /\ cancelAt[1].delays = 0

\* C20, the loop part: after such an interrupt the body never runs: no
\* delay, no is_running() and no stats query in the loop, an empty
\* Recording, no panic of the loop; nothing acts on the process before
\* teardown.
C20_BodyNeverRuns ==
  CancelledBeforeLoop =>
    /\ pc \in {"while", "post", "drop", "exited"}
    /\ delays = 0
    /\ recording = <<>>
    /\ ~startSet
    /\ cpuCalls = 1
    /\ notRunningAt = None
    /\ fatal = "none"
    /\ pc # "exited" => (acted = {} /\ kills = 0 /\ reaps = 0)

\* C20 (as stated), the teardown part: an Internal handle's child is killed
\* and reaped at teardown (checked on the runs whose teardown did not
\* panic).
C20_ChildKilledAndReaped ==
  (CancelledBeforeLoop /\ pc = "exited" /\ handle = "Internal"
     /\ ~dropPanicked)
    => target = "reaped"

\* C20 (amended): if the interrupt arrives after the handler is installed
\* and before the first evaluation of the loop condition, the loop body
\* never runs; at teardown an Internal handle's child that is still running
\* is sent one kill and waited for, and ends reaped unless the kill or the
\* wait failed (a warning) or teardown's is_running() panicked; a child that
\* exited meanwhile is reaped without a kill; an External target is left
\* alone.
C20_InterruptBeforeFirstCheck ==
  /\ C20_BodyNeverRuns
  /\ (CancelledBeforeLoop /\ pc = "exited" /\ handle = "Internal") =>
       /\ target = "reaped" \/ warnings # {} \/ dropPanicked
       /\ (warnings = {} /\ ~dropPanicked) => (reaps = 1 /\ kills <= 1)
       /\ kills = 1 => "kill" \in acted /\ "wait" \in acted
       /\ "kill" \in warnings => (kills = 0 /\ target = "alive")
  /\ (CancelledBeforeLoop /\ handle = "External") =>
       (acted = {} /\ kills = 0 /\ reaps = 0)

\* C20 witness: interrupted before the first check with the spawned child
\* running; the run ended with no delay, an empty Recording, and the child
\* killed and reaped by teardown.
C20_Witness ==
  /\ CancelledBeforeLoop
  /\ pc = "exited"
  /\ handle = "Internal"
  /\ delays = 0
  /\ recording = <<>>
  /\ kills = 1
  /\ reaps = 1
  /\ target = "reaped"

====
